---- MODULE Spec2Model ----
(***************************************************************************)
(* The board engine of the 1024-ish game (src/main.cpp): a 4x4 grid of     *)
(* zeros and powers of two, the slide-and-merge primitive slidePiecesLeft, *)
(* the three other directions obtained by rotating the grid, the random    *)
(* spawn addRandomPiece, and the queries checkWin and isGameOver; and the  *)
(* loop of main that drives a board until the game is won, lost or quit.   *)
(*                                                                         *)
(* grid[i][j] is indexed from 0 as in the source; the std::vector newRow   *)
(* of slidePiecesLeft is a sequence.  The random source                    *)
(* chooseRandomNumber(lo, hi) is an input: any integer of lo..hi.          *)
(***************************************************************************)
EXTENDS Integers, Sequences, FiniteSets, TLC

VARIABLES
    mode,       \* main: the validated game mode handed to Board(mode)
    grid,       \* Board::grid
    winTarget,  \* Board::winTarget
    op,         \* the member function that ran last
    arg,        \* the direction character of the last move ("" otherwise)
    pre,        \* grid when the last member function was entered (rotation
                \* harness: when the sequence of rotations started)
    slid,       \* grid after the slide of the last move, before the spawn
    ret,        \* value returned by the last member function
    replay,     \* inputs still to be replayed from a recorded session
                \* (rotation harness: senses still to be applied)
    free,       \* number of moves made with freely chosen inputs
    reps,       \* number of consecutive slides in direction arg, no spawn between
                \* (rotation harness: rotations done)
    drawn,      \* spawn harness: the draws addRandomPiece made, in order
    pc,         \* main: the statement the driver is at ("none": no driver)
    cout,       \* main: the messages printed so far, in order
    accepted    \* main: number of calls of move that returned true

vars == <<mode, grid, winTarget, op, arg, pre, slid, ret, replay, free, reps,
          drawn, pc, cout, accepted>>

----------------------------------------------------------------------------
(* Program constants *)

BOARD_SIZE == 4

Idx == 0 .. (BOARD_SIZE - 1)

Modes == {"E", "M", "H"}

(* Bounds of the model *)

\* moves explored with freely chosen inputs, after construction and from
\* every position of a recorded session
MaxFree == 1
\* slide harness: largest exponent of a tile value, 2^1 .. 2^MaxExp
MaxExp == 2
\* slide harness: consecutive slides in one direction
MaxReps == 2

----------------------------------------------------------------------------
(* Board::slidePiecesLeft *)

\* the grid of the constructor's first loop
ZeroGrid == [i \in Idx |-> [j \in Idx |-> 0]]

\* CombineAndSlide setting moved on every tile it emits, not only on a merge
RECURSIVE CombineAndSlide_MovedOnPush(_, _, _)
CombineAndSlide_MovedOnPush(r, col, acc) ==
    IF col = BOARD_SIZE THEN acc
    ELSE IF r[col] # 0
         THEN IF acc.newRow # << >> /\ acc.newRow[Len(acc.newRow)] = r[col]
              THEN CombineAndSlide_MovedOnPush(r, col + 1,
                       [newRow |-> [acc.newRow EXCEPT ![Len(acc.newRow)] = @ * 2],
                        moved |-> TRUE])
              ELSE CombineAndSlide_MovedOnPush(r, col + 1,
                       [newRow |-> Append(acc.newRow, r[col]), moved |-> TRUE])
         ELSE CombineAndSlide_MovedOnPush(r, col + 1, acc)

\* CombineAndSlide with a merge that adds 2 to newRow.back() instead of
\* doubling it
RECURSIVE CombineAndSlide_MergeAddsTwo(_, _, _)
CombineAndSlide_MergeAddsTwo(r, col, acc) ==
    IF col = BOARD_SIZE THEN acc
    ELSE IF r[col] # 0
         THEN IF acc.newRow # << >> /\ acc.newRow[Len(acc.newRow)] = r[col]
              THEN CombineAndSlide_MergeAddsTwo(r, col + 1,
                       [newRow |-> [acc.newRow EXCEPT ![Len(acc.newRow)] = @ + 2],
                        moved |-> TRUE])
              ELSE CombineAndSlide_MergeAddsTwo(r, col + 1,
                       [acc EXCEPT !.newRow = Append(@, r[col])])
         ELSE CombineAndSlide_MergeAddsTwo(r, col + 1, acc)

\* CombineAndSlide with a merge that drops the second tile without
\* doubling newRow.back()
RECURSIVE CombineAndSlide_MergeKeepsValue(_, _, _)
CombineAndSlide_MergeKeepsValue(r, col, acc) ==
    IF col = BOARD_SIZE THEN acc
    ELSE IF r[col] # 0
         THEN IF acc.newRow # << >> /\ acc.newRow[Len(acc.newRow)] = r[col]
              THEN CombineAndSlide_MergeKeepsValue(r, col + 1,
                       [newRow |-> acc.newRow, moved |-> TRUE])
              ELSE CombineAndSlide_MergeKeepsValue(r, col + 1,
                       [acc EXCEPT !.newRow = Append(@, r[col])])
         ELSE CombineAndSlide_MergeKeepsValue(r, col + 1, acc)

\* The "combine and slide" loop over the columns of row r.
\* acc = [newRow, moved] after columns 0 .. col-1 have been scanned.
RECURSIVE CombineAndSlide(_, _, _)
CombineAndSlide(r, col, acc) ==
    IF col = BOARD_SIZE THEN acc
    ELSE IF r[col] # 0
         THEN IF acc.newRow # << >> /\ acc.newRow[Len(acc.newRow)] = r[col]
              THEN CombineAndSlide(r, col + 1,
                       [newRow |-> [acc.newRow EXCEPT ![Len(acc.newRow)] = @ * 2],
                        moved |-> TRUE])
              ELSE CombineAndSlide(r, col + 1,
                       [acc EXCEPT !.newRow = Append(@, r[col])])
         ELSE CombineAndSlide(r, col + 1, acc)

\* PadWithZeros inserting the zeros at the front of newRow
RECURSIVE PadWithZeros_Front(_)
PadWithZeros_Front(newRow) ==
    IF Len(newRow) < BOARD_SIZE THEN PadWithZeros_Front(<<0>> \o newRow) ELSE newRow

\* "Pad with zeros": while (newRow.size() < BOARD_SIZE) newRow.push_back(0)
RECURSIVE PadWithZeros(_)
PadWithZeros(newRow) ==
    IF Len(newRow) < BOARD_SIZE THEN PadWithZeros(Append(newRow, 0)) ELSE newRow

\* The "check if row changed" loop: st = [row, moved] after columns
\* 0 .. col-1 have been compared with newRow and overwritten.
RECURSIVE CheckIfRowChanged(_, _, _)
CheckIfRowChanged(st, newRow, col) ==
    IF col = BOARD_SIZE THEN st
    ELSE IF st.row[col] # newRow[col + 1]
         THEN CheckIfRowChanged(
                  [row |-> [st.row EXCEPT ![col] = newRow[col + 1]], moved |-> TRUE],
                  newRow, col + 1)
         ELSE CheckIfRowChanged(st, newRow, col + 1)

\* SlideRow with a "check if row changed" loop that overwrites the row but
\* does not set moved: only a merge reports a change
SlideRow_MergeOnly(r, moved) ==
    LET acc == CombineAndSlide(r, 0, [newRow |-> << >>, moved |-> moved])
    IN  [row   |-> CheckIfRowChanged([row |-> r, moved |-> acc.moved],
                                     PadWithZeros(acc.newRow), 0).row,
         moved |-> acc.moved]

\* One iteration of the row loop on row r, entered with the flag moved: the
\* new content of the row and the new value of the flag.
SlideRow(r, moved) ==
    LET acc == CombineAndSlide(r, 0, [newRow |-> << >>, moved |-> moved])
    IN  CheckIfRowChanged([row |-> r, moved |-> acc.moved], PadWithZeros(acc.newRow), 0)

\* The row loop: st = [grid, moved] after rows 0 .. row-1.
RECURSIVE SlideRows(_, _)
SlideRows(st, row) ==
    IF row = BOARD_SIZE THEN st
    ELSE LET s == SlideRow(st.grid[row], st.moved)
         IN  SlideRows([grid |-> [st.grid EXCEPT ![row] = s.row], moved |-> s.moved],
                       row + 1)

\* Board::slidePiecesLeft: the grid it leaves and the value it returns
slidePiecesLeft(g) == SlideRows([grid |-> g, moved |-> FALSE], 0)

----------------------------------------------------------------------------
(* Board::rotateBoard and the three slides built on it *)

\* rotateBoard ignoring its argument: always counter-clockwise
rotateBoard_AlwaysCounterClockwise(g, counterClockwise) ==
    [a \in Idx |-> [b \in Idx |-> g[b][BOARD_SIZE - 1 - a]]]

\* rotateBoard whose clockwise branch writes temp[j][i]: a transposition
rotateBoard_ClockwiseTransposes(g, counterClockwise) ==
    [a \in Idx |-> [b \in Idx |->
        IF counterClockwise THEN g[b][BOARD_SIZE - 1 - a]
                            ELSE g[b][a]]]

\* Board::rotateBoard.  The source writes temp[BOARD_SIZE-1-j][i] = grid[i][j]
\* (counter-clockwise) or temp[j][BOARD_SIZE-1-i] = grid[i][j] (clockwise)
\* for all i, j and copies temp back to grid; read at [a][b], the new grid
\* is grid[b][BOARD_SIZE-1-a], respectively grid[BOARD_SIZE-1-b][a].
rotateBoard(g, counterClockwise) ==
    [a \in Idx |-> [b \in Idx |->
        IF counterClockwise THEN g[b][BOARD_SIZE - 1 - a]
                            ELSE g[BOARD_SIZE - 1 - b][a]]]

\* Board::slidePiecesRight
slidePiecesRight(g) ==
    LET s == slidePiecesLeft(rotateBoard(rotateBoard(g, TRUE), TRUE))
    IN  [grid |-> rotateBoard(rotateBoard(s.grid, TRUE), TRUE), moved |-> s.moved]

\* slidePiecesUp rotating back in the sense it rotated forth
slidePiecesUp_WrongBack(g) ==
    LET s == slidePiecesLeft(rotateBoard(g, TRUE))
    IN  [grid |-> rotateBoard(s.grid, TRUE), moved |-> s.moved]

\* Board::slidePiecesUp
slidePiecesUp(g) ==
    LET s == slidePiecesLeft(rotateBoard(g, TRUE))
    IN  [grid |-> rotateBoard(s.grid, FALSE), moved |-> s.moved]

\* Board::slidePiecesDown
slidePiecesDown(g) ==
    LET s == slidePiecesLeft(rotateBoard(g, FALSE))
    IN  [grid |-> rotateBoard(s.grid, TRUE), moved |-> s.moved]

----------------------------------------------------------------------------
(* Spawning *)

\* row-major order of the two nested loops over i and j
RowMajor == [n \in 1 .. BOARD_SIZE * BOARD_SIZE |->
                <<(n - 1) \div BOARD_SIZE, (n - 1) % BOARD_SIZE>>]

\* emptySquares collecting the occupied squares: the test == 0 inverted
emptySquares_Occupied(g) == SelectSeq(RowMajor, LAMBDA c : g[c[1]][c[2]] # 0)

\* addRandomPiece: the vector emptySquares
emptySquares(g) == SelectSeq(RowMajor, LAMBDA c : g[c[1]][c[2]] = 0)

\* getRandomStartingNumber comparing with < instead of <=
getRandomStartingNumber_StrictlyBelow(m, randomValue) ==
    IF m = "E" THEN (IF randomValue < 5 THEN 2 ELSE 4)
    ELSE IF m = "M" THEN (IF randomValue < 7 THEN 2 ELSE 4)
    ELSE (IF randomValue < 9 THEN 2 ELSE 4)

\* Board::getRandomStartingNumber; randomValue is chooseRandomNumber(1, 10)
getRandomStartingNumber(m, randomValue) ==
    IF m = "E" THEN (IF randomValue <= 5 THEN 2 ELSE 4)
    ELSE IF m = "M" THEN (IF randomValue <= 7 THEN 2 ELSE 4)
    ELSE (IF randomValue <= 9 THEN 2 ELSE 4)

\* addRandomPiece indexing all squares instead of the empty ones
addRandomPiece_AnyCell(g, wt, randomSquare, randomValue) ==
    LET es == emptySquares(g)
    IN  IF es = << >> THEN g
        ELSE LET c == RowMajor[randomSquare + 1]
             IN  [g EXCEPT ![c[1]][c[2]] =
                     getRandomStartingNumber(
                         IF wt = 256 THEN "E" ELSE IF wt = 512 THEN "M" ELSE "H",
                         randomValue)]

\* Board::addRandomPiece; randomSquare is
\* chooseRandomNumber(0, emptySquares.size() - 1).  No draw is made when
\* emptySquares is empty.
addRandomPiece(g, wt, randomSquare, randomValue) ==
    LET es == emptySquares(g)
    IN  IF es = << >> THEN g
        ELSE LET c == es[randomSquare + 1]
             IN  [g EXCEPT ![c[1]][c[2]] =
                     getRandomStartingNumber(
                         IF wt = 256 THEN "E" ELSE IF wt = 512 THEN "M" ELSE "H",
                         randomValue)]

\* The calls of chooseRandomNumber one call of addRandomPiece makes, as the
\* values drawn in order: none when emptySquares is empty (the early
\* return), else randomSquare and then, in getRandomStartingNumber,
\* randomValue.
addRandomPieceDraws(g, randomSquare, randomValue) ==
    IF emptySquares(g) = << >> THEN << >> ELSE <<randomSquare, randomValue>>

\* Board::Board: the grid and the win target after construction
Board(m, k1, d1, k2, d2) ==
    LET wt == IF m = "E" THEN 256 ELSE IF m = "M" THEN 512 ELSE 1024
    IN  [grid      |-> addRandomPiece(addRandomPiece(ZeroGrid, wt, k1, d1), wt, k2, d2),
         winTarget |-> wt]

----------------------------------------------------------------------------
(* Board::move *)

\* std::toupper on the characters of Chars
toupper(c) ==
    CASE c = "l" -> "L"
      [] c = "r" -> "R"
      [] c = "u" -> "U"
      [] c = "d" -> "D"
      [] c = "q" -> "Q"
      [] c = "x" -> "X"
      [] OTHER   -> c

\* the switch of Board::move with the default branch falling into case 'L'
SlideSwitch_DefaultLeft(g, direction) ==
    LET u == toupper(direction)
    IN  IF u = "R" THEN [known |-> TRUE] @@ slidePiecesRight(g)
        ELSE IF u = "U" THEN [known |-> TRUE] @@ slidePiecesUp(g)
        ELSE IF u = "D" THEN [known |-> TRUE] @@ slidePiecesDown(g)
        ELSE [known |-> TRUE] @@ slidePiecesLeft(g)

\* the switch of Board::move; known is FALSE on the default branch, which
\* returns at once
SlideSwitch(g, direction) ==
    LET u == toupper(direction)
    IN  IF u = "L" THEN [known |-> TRUE] @@ slidePiecesLeft(g)
        ELSE IF u = "R" THEN [known |-> TRUE] @@ slidePiecesRight(g)
        ELSE IF u = "U" THEN [known |-> TRUE] @@ slidePiecesUp(g)
        ELSE IF u = "D" THEN [known |-> TRUE] @@ slidePiecesDown(g)
        ELSE [known |-> FALSE, grid |-> g, moved |-> FALSE]

\* move without the call of addRandomPiece
SpawnIfMoved_NoSpawn(s, g, wt, randomSquare, randomValue) ==
    IF ~s.known THEN [grid |-> g, slid |-> g, ret |-> FALSE]
    ELSE [grid |-> s.grid, slid |-> s.grid, ret |-> s.moved]

\* the rest of Board::move after the switch has left s: the grid it
\* leaves, the grid between slide and spawn, and the value it returns
SpawnIfMoved(s, g, wt, randomSquare, randomValue) ==
    IF ~s.known THEN [grid |-> g, slid |-> g, ret |-> FALSE]
    ELSE [grid |-> IF s.moved
                   THEN addRandomPiece(s.grid, wt, randomSquare, randomValue)
                   ELSE s.grid,
          slid |-> s.grid,
          ret  |-> s.moved]

\* Board::move
move(g, wt, direction, randomSquare, randomValue) ==
    SpawnIfMoved(SlideSwitch(g, direction), g, wt, randomSquare, randomValue)

----------------------------------------------------------------------------
(* Queries *)

\* checkWin testing grid[i][j] > winTarget instead of ==
RECURSIVE checkWinFrom_GreaterThan(_, _, _)
checkWinFrom_GreaterThan(g, wt, n) ==
    IF n = BOARD_SIZE * BOARD_SIZE THEN FALSE
    ELSE IF g[n \div BOARD_SIZE][n % BOARD_SIZE] > wt THEN TRUE
    ELSE checkWinFrom_GreaterThan(g, wt, n + 1)

\* checkWin with the inner loop stopping one column early
RECURSIVE checkWinFrom_SkipLastColumn(_, _, _)
checkWinFrom_SkipLastColumn(g, wt, n) ==
    IF n = BOARD_SIZE * BOARD_SIZE THEN FALSE
    ELSE IF n % BOARD_SIZE < BOARD_SIZE - 1 /\ g[n \div BOARD_SIZE][n % BOARD_SIZE] = wt
         THEN TRUE
    ELSE checkWinFrom_SkipLastColumn(g, wt, n + 1)

\* Board::checkWin from cell n of the row-major scan on
RECURSIVE checkWinFrom(_, _, _)
checkWinFrom(g, wt, n) ==
    IF n = BOARD_SIZE * BOARD_SIZE THEN FALSE
    ELSE IF g[n \div BOARD_SIZE][n % BOARD_SIZE] = wt THEN TRUE
    ELSE checkWinFrom(g, wt, n + 1)

checkWin(g, wt) == checkWinFrom(g, wt, 0)

\* isGameOver without the comparison with the cell below
RECURSIVE isGameOverFrom_NoVertical(_, _)
isGameOverFrom_NoVertical(g, n) ==
    IF n = BOARD_SIZE * BOARD_SIZE THEN TRUE
    ELSE LET i == n \div BOARD_SIZE
             j == n % BOARD_SIZE
         IN  IF g[i][j] = 0 THEN FALSE
             ELSE IF j < BOARD_SIZE - 1 /\ g[i][j] = g[i][j + 1] THEN FALSE
             ELSE isGameOverFrom_NoVertical(g, n + 1)

\* Board::isGameOver from cell n of the row-major scan on
RECURSIVE isGameOverFrom(_, _)
isGameOverFrom(g, n) ==
    IF n = BOARD_SIZE * BOARD_SIZE THEN TRUE
    ELSE LET i == n \div BOARD_SIZE
             j == n % BOARD_SIZE
         IN  IF g[i][j] = 0 THEN FALSE
             ELSE IF j < BOARD_SIZE - 1 /\ g[i][j] = g[i][j + 1] THEN FALSE
             ELSE IF i < BOARD_SIZE - 1 /\ g[i][j] = g[i + 1][j] THEN FALSE
             ELSE isGameOverFrom(g, n + 1)

isGameOver(g) == isGameOverFrom(g, 0)

----------------------------------------------------------------------------
(* Inputs: the characters handed to move and the draws of the random       *)
(* source.  The constructor's value draws are the whole range [1, 10];     *)
(* the other freely chosen draws are the two ends of their range,          *)
(* [0, emptySquares.size() - 1] for positions and [1, 10] for values.      *)
(* Two recorded sessions (mode, the constructor's draws k1, d1, k2, d2,    *)
(* then <<character, position draw, value draw>> per move) carry the model *)
(* to late positions: one ends with a 256 in Easy mode, one with a full    *)
(* grid without equal neighbours in Hard mode, and one, for the driver,    *)
(* with a 256 in Easy mode on a full grid without equal neighbours.        *)

Chars == {"L", "R", "U", "D", "l", "r", "u", "d", "Q", "x"}

ValueDraws == 1 .. 10

ValueEnds == {1, 10}

PositionDraws(n) == IF n = 0 THEN {0} ELSE {0, n - 1}

WonSession ==
    [mode |-> "E", ctor |-> <<0, 10, 0, 10>>,
     moves |-> <<
          <<"L", 0, 8>>, <<"D", 12, 8>>, <<"R", 0, 8>>, <<"L", 0, 8>>, <<"L", 0, 8>>, <<"U", 0, 8>>,
          <<"R", 0, 8>>, <<"U", 0, 8>>, <<"L", 0, 8>>, <<"R", 4, 8>>, <<"U", 1, 8>>, <<"L", 4, 8>>,
          <<"D", 0, 8>>, <<"R", 6, 8>>, <<"U", 0, 8>>, <<"D", 0, 8>>, <<"U", 1, 8>>, <<"L", 3, 8>>,
          <<"D", 0, 8>>, <<"L", 0, 8>>, <<"L", 0, 8>>, <<"U", 0, 8>>, <<"R", 0, 8>>, <<"U", 0, 8>>,
          <<"L", 2, 8>>, <<"L", 4, 8>>, <<"D", 0, 8>>, <<"R", 0, 8>>, <<"L", 0, 8>>, <<"R", 5, 8>>,
          <<"U", 1, 8>>, <<"R", 1, 8>>, <<"U", 0, 8>>, <<"R", 0, 8>>, <<"L", 0, 8>>, <<"R", 4, 8>>,
          <<"U", 1, 8>>, <<"R", 7, 8>>, <<"D", 0, 8>>, <<"L", 0, 8>>, <<"L", 1, 8>>, <<"U", 0, 8>>,
          <<"L", 1, 8>>, <<"R", 6, 8>>, <<"D", 1, 8>>, <<"D", 1, 8>>, <<"U", 0, 8>>, <<"R", 0, 8>>,
          <<"U", 1, 8>>, <<"D", 0, 8>>, <<"R", 1, 8>>, <<"D", 8, 8>>, <<"L", 0, 8>>, <<"D", 0, 8>>,
          <<"U", 0, 8>>, <<"D", 3, 8>>, <<"U", 0, 8>>, <<"R", 6, 8>>, <<"D", 0, 8>>, <<"R", 0, 8>>,
          <<"L", 0, 8>>, <<"D", 8, 8>>, <<"R", 0, 8>>, <<"D", 0, 8>>, <<"U", 3, 8>>, <<"R", 9, 8>>,
          <<"U", 0, 8>>, <<"R", 0, 3>> >>]

LostSession ==
    [mode |-> "H", ctor |-> <<6, 5, 7, 4>>,
     moves |-> <<
          <<"L", 4, 10>>, <<"D", 12, 1>>, <<"U", 12, 7>>, <<"L", 4, 9>>, <<"U", 6, 9>>, <<"L", 1, 9>>,
          <<"U", 11, 4>>, <<"D", 4, 5>>, <<"L", 11, 8>>, <<"L", 5, 10>>, <<"U", 8, 10>>, <<"L", 7, 10>>,
          <<"L", 6, 10>>, <<"D", 8, 9>>, <<"L", 5, 5>>, <<"D", 7, 3>>, <<"R", 1, 6>>, <<"L", 4, 8>>,
          <<"U", 2, 6>>, <<"R", 2, 4>>, <<"R", 4, 6>>, <<"U", 2, 10>>, <<"D", 4, 3>>, <<"U", 2, 8>>,
          <<"R", 1, 7>>, <<"R", 2, 5>>, <<"R", 1, 9>>, <<"D", 0, 4>>, <<"R", 0, 8>>, <<"L", 0, 10>>,
          <<"L", 0, 2>>, <<"R", 0, 3>>, <<"U", 1, 7>>, <<"D", 1, 6>>, <<"U", 0, 7>>, <<"L", 0, 3>>,
          <<"U", 0, 4>> >>]

WonLostSession ==
    [mode |-> "E", ctor |-> <<0, 10, 0, 10>>,
     moves |-> <<
          <<"L", 14, 8>>, <<"R", 6, 8>>, <<"D", 12, 8>>, <<"L", 4, 8>>, <<"U", 11, 8>>, <<"D", 11, 8>>,
          <<"R", 8, 8>>, <<"D", 8, 8>>, <<"U", 10, 8>>, <<"U", 5, 8>>, <<"D", 1, 8>>, <<"U", 10, 8>>,
          <<"U", 10, 8>>, <<"U", 5, 8>>, <<"D", 7, 8>>, <<"L", 4, 8>>, <<"L", 6, 8>>, <<"L", 4, 8>>,
          <<"R", 3, 8>>, <<"L", 1, 8>>, <<"R", 4, 8>>, <<"U", 0, 8>>, <<"L", 5, 8>>, <<"D", 3, 8>>,
          <<"U", 3, 8>>, <<"R", 7, 8>>, <<"D", 2, 8>>, <<"L", 2, 8>>, <<"L", 7, 8>>, <<"R", 6, 8>>,
          <<"D", 8, 8>>, <<"U", 0, 8>>, <<"R", 1, 8>>, <<"D", 12, 8>>, <<"L", 7, 8>>, <<"U", 12, 8>>,
          <<"U", 2, 8>>, <<"D", 11, 8>>, <<"L", 10, 8>>, <<"R", 7, 8>>, <<"D", 2, 8>>, <<"D", 9, 8>>,
          <<"L", 4, 8>>, <<"R", 6, 8>>, <<"L", 2, 8>>, <<"R", 2, 8>>, <<"R", 10, 8>>, <<"U", 10, 8>>,
          <<"U", 1, 8>>, <<"L", 4, 8>>, <<"D", 5, 8>>, <<"L", 5, 8>>, <<"R", 5, 8>>, <<"R", 4, 8>>,
          <<"L", 8, 8>>, <<"D", 8, 8>>, <<"R", 6, 8>>, <<"D", 8, 8>>, <<"L", 2, 8>>, <<"D", 6, 8>>,
          <<"D", 2, 8>>, <<"D", 2, 8>>, <<"U", 10, 8>>, <<"D", 5, 8>>, <<"L", 8, 8>>, <<"U", 8, 8>>,
          <<"L", 5, 3>>, <<"D", 1, 3>>, <<"D", 7, 3>>, <<"D", 7, 8>>, <<"U", 6, 8>>, <<"U", 5, 3>>,
          <<"D", 3, 8>>, <<"D", 2, 3>>, <<"U", 2, 8>>, <<"D", 1, 8>>, <<"U", 0, 8>>, <<"D", 0, 3>>,
          <<"R", 0, 3>> >>]

Sessions == {WonSession, LostSession}

----------------------------------------------------------------------------
(* The board from its construction on, under any sequence of calls of its  *)
(* public member functions.                                                *)

\* the state Board::Board leaves, with the inputs of the session to come
Constructed(sessions) ==
    /\ \/ \E m \in Modes, d1 \in ValueDraws, d2 \in ValueDraws :
            \E k1 \in PositionDraws(BOARD_SIZE * BOARD_SIZE),
               k2 \in PositionDraws(BOARD_SIZE * BOARD_SIZE - 1) :
                /\ mode = m
                /\ grid = Board(m, k1, d1, k2, d2).grid
                /\ winTarget = Board(m, k1, d1, k2, d2).winTarget
                /\ replay = << >>
       \/ \E s \in sessions :
            /\ mode = s.mode
            /\ grid = Board(s.mode, s.ctor[1], s.ctor[2], s.ctor[3], s.ctor[4]).grid
            /\ winTarget = Board(s.mode, s.ctor[1], s.ctor[2], s.ctor[3], s.ctor[4]).winTarget
            /\ replay = s.moves
    /\ op = "Board"
    /\ arg = ""
    /\ pre = ZeroGrid
    /\ slid = ZeroGrid
    /\ ret = FALSE
    /\ free = 0
    /\ reps = 0
    /\ drawn = << >>
    /\ cout = << >>
    /\ accepted = 0

Init == Constructed(Sessions) /\ pc = "none"

\* a call of move(c): s is what its switch leaves, k and d are its draws,
\* if it makes any
MoveWith(c, s, k, d) ==
    \E r \in {SpawnIfMoved(s, grid, winTarget, k, d)} :
        /\ grid' = r.grid
        /\ slid' = r.slid
        /\ ret' = r.ret
        /\ pre' = grid
        /\ op' = "move"
        /\ arg' = c
        /\ UNCHANGED <<mode, winTarget, reps, drawn>>

CallMove ==
    \/ /\ replay # << >>
       /\ \E s \in {SlideSwitch(grid, Head(replay)[1])} :
            /\ s.moved => Head(replay)[2] < Len(emptySquares(s.grid))
            /\ MoveWith(Head(replay)[1], s, Head(replay)[2], Head(replay)[3])
       /\ replay' = Tail(replay)
       /\ free' = free
       /\ UNCHANGED <<pc, cout, accepted>>
    \/ /\ free < MaxFree
       /\ \E c \in Chars :
            \E s \in {SlideSwitch(grid, c)} :
                IF s.moved
                THEN \E k \in PositionDraws(Len(emptySquares(s.grid))), d \in ValueEnds :
                        MoveWith(c, s, k, d)
                ELSE MoveWith(c, s, 0, 1)
       /\ replay' = << >>
       /\ free' = free + 1
       /\ UNCHANGED <<pc, cout, accepted>>

CallCheckWin ==
    /\ ret' = checkWin(grid, winTarget)
    /\ op' = "checkWin"
    /\ arg' = ""
    /\ pre' = grid
    /\ slid' = grid
    /\ UNCHANGED <<mode, grid, winTarget, replay, free, reps, drawn, pc, cout, accepted>>

CallIsGameOver ==
    /\ ret' = isGameOver(grid)
    /\ op' = "isGameOver"
    /\ arg' = ""
    /\ pre' = grid
    /\ slid' = grid
    /\ UNCHANGED <<mode, grid, winTarget, replay, free, reps, drawn, pc, cout, accepted>>

Next == CallMove \/ CallCheckWin \/ CallIsGameOver

Spec == Init /\ [][Next]_vars

----------------------------------------------------------------------------
(* main from the construction of gameBoard on.  pc names the statement the *)
(* driver is at: "while" (the loop condition, line 223), "cin" (the prompt *)
(* and the body down to the call of move), "checkWin" (line 246), "if"     *)
(* (line 253), "done" (return 0).  The player's input is a string, here    *)
(* the sequence of its characters; move[0] of the source is line[1].       *)

MainSessions == {WonSession, LostSession, WonLostSession}

\* strings the player types when not following a session; << >> is what
\* move holds when std::cin is at its end
Typed == {<<"L">>, <<"R">>, <<"U">>, <<"D">>, <<"d">>, <<"Q">>, <<"q">>, <<"x">>,
          <<"U", "D">>, << >>}

MainInit == Constructed(MainSessions) /\ pc = "while"

\* while (!gameBoard.isGameOver())
MainWhile ==
    /\ pc = "while"
    /\ ret' = isGameOver(grid)
    /\ op' = "isGameOver"
    /\ arg' = ""
    /\ pre' = grid
    /\ slid' = grid
    /\ pc' = IF isGameOver(grid) THEN "if" ELSE "cin"
    /\ UNCHANGED <<mode, grid, winTarget, replay, free, reps, drawn, cout, accepted>>

\* lines 230 to 244 once the string move, here line, has been read; recorded is << >> or the two
\* draws <<randomSquare, randomValue>> of the session
MainBody(line, recorded) ==
    IF line \in {<<"Q">>, <<"q">>}
    THEN /\ pc' = "if"
         /\ UNCHANGED <<mode, grid, winTarget, op, arg, pre, slid, ret, reps, drawn,
                        cout, accepted>>
    ELSE IF Len(line) # 1 \/ line[1] \notin {"U", "u", "D", "d", "L", "l", "R", "r"}
    THEN /\ cout' = Append(cout, "Error: Invalid move.")
         /\ pc' = "while"
         /\ UNCHANGED <<mode, grid, winTarget, op, arg, pre, slid, ret, reps, drawn,
                        accepted>>
    ELSE /\ \E s \in {SlideSwitch(grid, line[1])} :
              IF s.moved
              THEN \E k \in (IF recorded # << >> THEN {recorded[1]}
                              ELSE PositionDraws(Len(emptySquares(s.grid))))
                            \cap (0 .. (Len(emptySquares(s.grid)) - 1)),
                      d \in (IF recorded # << >> THEN {recorded[2]} ELSE ValueEnds) :
                        MoveWith(line[1], s, k, d)
              ELSE MoveWith(line[1], s, 0, 1)
         /\ IF ret'
            THEN /\ pc' = "checkWin"
                 /\ accepted' = accepted + 1
                 /\ cout' = cout
            ELSE /\ cout' = Append(cout, "Invalid move direction.")
                 /\ pc' = "while"
                 /\ accepted' = accepted

\* std::cin >> move and the body of the loop down to the call of move
MainCin ==
    /\ pc = "cin"
    /\ \/ /\ replay # << >>
          /\ MainBody(<<Head(replay)[1]>>, <<Head(replay)[2], Head(replay)[3]>>)
          /\ replay' = Tail(replay)
          /\ free' = free
       \/ /\ free < MaxFree
          /\ \E line \in Typed : MainBody(line, << >>)
          /\ replay' = << >>
          /\ free' = free + 1

\* the test of checkWin without the break: the loop goes on after a win
MainCheckWin_NoBreak ==
    /\ pc = "checkWin"
    /\ ret' = checkWin(grid, winTarget)
    /\ op' = "checkWin"
    /\ arg' = ""
    /\ pre' = grid
    /\ slid' = grid
    /\ cout' = IF checkWin(grid, winTarget) THEN Append(cout, "You win!") ELSE cout
    /\ pc' = "while"
    /\ UNCHANGED <<mode, grid, winTarget, replay, free, reps, drawn, accepted>>

\* if (gameBoard.checkWin()) { ... break; }
MainCheckWin ==
    /\ pc = "checkWin"
    /\ ret' = checkWin(grid, winTarget)
    /\ op' = "checkWin"
    /\ arg' = ""
    /\ pre' = grid
    /\ slid' = grid
    /\ cout' = IF checkWin(grid, winTarget) THEN Append(cout, "You win!") ELSE cout
    /\ pc' = IF checkWin(grid, winTarget) THEN "if" ELSE "while"
    /\ UNCHANGED <<mode, grid, winTarget, replay, free, reps, drawn, accepted>>

\* if (gameBoard.isGameOver()) { ... "You lose." } return 0;
MainIf ==
    /\ pc = "if"
    /\ ret' = isGameOver(grid)
    /\ op' = "isGameOver"
    /\ arg' = ""
    /\ pre' = grid
    /\ slid' = grid
    /\ cout' = IF isGameOver(grid) THEN Append(cout, "You lose.") ELSE cout
    /\ pc' = "done"
    /\ UNCHANGED <<mode, grid, winTarget, replay, free, reps, drawn, accepted>>

MainNext == MainWhile \/ MainCin \/ MainCheckWin \/ MainIf

SpecMain == MainInit /\ [][MainNext]_vars

\* The statements that do not wait for the player run to their end.
SpecMainFair ==
    SpecMain /\ WF_vars(MainWhile) /\ WF_vars(MainCheckWin) /\ WF_vars(MainIf)

----------------------------------------------------------------------------
(* The slide harness: the four private slide functions applied, with no   *)
(* spawn and up to MaxReps times in the same direction, to every grid      *)
(* made of one row or one column of arbitrary content (zeros and tiles     *)
(* 2^1 .. 2^MaxExp) and at most one further tile, a 2, on a cell of the    *)
(* main diagonal (stray = BOARD_SIZE: no further tile).                    *)

RECURSIVE Pow2(_)
Pow2(e) == IF e = 0 THEN 1 ELSE 2 * Pow2(e - 1)

TileValues == {Pow2(e) : e \in 1 .. MaxExp}

Cells == Idx \X Idx

HarnessGrid(isRow, n, content, stray) ==
    [i \in Idx |-> [j \in Idx |->
        IF isRow /\ i = n THEN content[j]
        ELSE IF ~isRow /\ j = n THEN content[i]
        ELSE IF i = stray /\ j = stray THEN 2
        ELSE 0]]

SlideInit ==
    /\ mode = "E"
    /\ winTarget = 256
    /\ \E isRow \in BOOLEAN, n \in Idx, content \in [Idx -> {0} \cup TileValues],
          stray \in 0 .. BOARD_SIZE :
            grid = HarnessGrid(isRow, n, content, stray)
    /\ op = "init"
    /\ arg = ""
    /\ pre = grid
    /\ slid = grid
    /\ ret = FALSE
    /\ replay = << >>
    /\ free = 0
    /\ reps = 0
    /\ drawn = << >>
    /\ pc = "none"
    /\ cout = << >>
    /\ accepted = 0

SlideStep(c, s) ==
    /\ \/ op = "init"
       \/ op = "slide" /\ arg = c /\ reps < MaxReps
    /\ op' = "slide"
    /\ arg' = c
    /\ pre' = grid
    /\ \E r \in {s} :
         /\ grid' = r.grid
         /\ slid' = r.grid
         /\ ret' = r.moved
    /\ reps' = reps + 1
    /\ UNCHANGED <<mode, winTarget, replay, free, drawn, pc, cout, accepted>>

SlideLeft  == SlideStep("L", slidePiecesLeft(grid))
SlideRight == SlideStep("R", slidePiecesRight(grid))
SlideUp    == SlideStep("U", slidePiecesUp(grid))
SlideDown  == SlideStep("D", slidePiecesDown(grid))

SlideNext == SlideLeft \/ SlideRight \/ SlideUp \/ SlideDown

SpecSlide == SlideInit /\ [][SlideNext]_vars

----------------------------------------------------------------------------
(* The rotation harness: rotateBoard applied to every grid of the slide    *)
(* harness in each of four sequences of senses (TRUE: counter-clockwise):  *)
(* the four rotations slidePiecesRight makes in all, the same in the other *)
(* sense, and the there-and-back pairs of slidePiecesUp and                *)
(* slidePiecesDown.  replay holds the senses still to be applied, pre the  *)
(* grid the sequence started from.                                         *)

RotationSequences ==
    {<<TRUE, TRUE, TRUE, TRUE>>, <<FALSE, FALSE, FALSE, FALSE>>,
     <<TRUE, FALSE>>, <<FALSE, TRUE>>}

RotateInit ==
    /\ mode = "E"
    /\ winTarget = 256
    /\ \E isRow \in BOOLEAN, n \in Idx, content \in [Idx -> {0} \cup TileValues],
          stray \in 0 .. BOARD_SIZE :
            grid = HarnessGrid(isRow, n, content, stray)
    /\ replay \in RotationSequences
    /\ op = "init"
    /\ arg = ""
    /\ pre = grid
    /\ slid = grid
    /\ ret = FALSE
    /\ free = 0
    /\ reps = 0
    /\ drawn = << >>
    /\ pc = "none"
    /\ cout = << >>
    /\ accepted = 0

RotateStep ==
    /\ replay # << >>
    /\ grid' = rotateBoard(grid, Head(replay))
    /\ replay' = Tail(replay)
    /\ op' = "rotateBoard"
    /\ reps' = reps + 1
    /\ UNCHANGED <<mode, winTarget, arg, pre, slid, ret, free, drawn, pc, cout, accepted>>

SpecRotate == RotateInit /\ [][RotateStep]_vars

----------------------------------------------------------------------------
(* The spawn harness: addRandomPiece applied once, with every position     *)
(* draw of [0, emptySquares.size() - 1] and every value draw of [1, 10],   *)
(* to a board of each mode whose rows above row n are full of 2s, whose    *)
(* row n has arbitrary content and whose rows below are empty.  With       *)
(* n = BOARD_SIZE - 1 and no zero in the content the grid is full.         *)

SpawnGrid(n, content) ==
    [i \in Idx |-> [j \in Idx |->
        IF i < n THEN 2 ELSE IF i = n THEN content[j] ELSE 0]]

SpawnInit ==
    /\ mode \in Modes
    /\ winTarget = Board(mode, 0, 1, 0, 1).winTarget
    /\ \E n \in Idx, content \in [Idx -> {0} \cup TileValues] :
            grid = SpawnGrid(n, content)
    /\ op = "init"
    /\ arg = ""
    /\ pre = grid
    /\ slid = grid
    /\ ret = FALSE
    /\ replay = << >>
    /\ free = 0
    /\ reps = 0
    /\ drawn = << >>
    /\ pc = "none"
    /\ cout = << >>
    /\ accepted = 0

\* the range of the position draw: [0, emptySquares.size() - 1]; no draw
\* is made from an empty range
SquareDraws(g) ==
    IF emptySquares(g) = << >> THEN {0} ELSE 0 .. (Len(emptySquares(g)) - 1)

SpawnStep ==
    /\ op = "init"
    /\ \E randomSquare \in SquareDraws(grid), randomValue \in ValueDraws :
          /\ grid' = addRandomPiece(grid, winTarget, randomSquare, randomValue)
          /\ drawn' = addRandomPieceDraws(grid, randomSquare, randomValue)
    /\ op' = "addRandomPiece"
    /\ pre' = grid
    /\ slid' = grid
    /\ UNCHANGED <<mode, winTarget, arg, ret, replay, free, reps, pc, cout, accepted>>

SpecSpawn == SpawnInit /\ [][SpawnStep]_vars

----------------------------------------------------------------------------
(* Vocabulary of the properties *)

Directions == {"L", "R", "U", "D"}

Cell(g, c) == g[c[1]][c[2]]

NonZero(g) == {c \in Cells : Cell(g, c) # 0}

\* the cells in which g and h differ
Differing(g, h) == {c \in Cells : Cell(g, c) # Cell(h, c)}

Row4(a, b, c, d) == [j \in Idx |-> <<a, b, c, d>>[j + 1]]

\* the non-zero values of a row, in order
Compact(r) == SelectSeq([n \in 1 .. BOARD_SIZE |-> r[n - 1]], LAMBDA v : v # 0)

\* out arises from the tiles in by leaving a tile alone or merging it with
\* its equal right neighbour, no tile taking part in two merges
RECURSIVE AtMostOneMergeEach(_, _)
AtMostOneMergeEach(in, out) ==
    IF in = << >> THEN out = << >>
    ELSE /\ out # << >>
         /\ \/ Head(out) = Head(in) /\ AtMostOneMergeEach(Tail(in), Tail(out))
            \/ /\ Len(in) >= 2
               /\ in[1] = in[2]
               /\ Head(out) = 2 * in[1]
               /\ AtMostOneMergeEach(Tail(Tail(in)), Tail(out))

\* two equal tiles next to each other along the axis of direction u
EqualNeighboursAlong(g, u) ==
    \E i \in Idx, j \in 0 .. (BOARD_SIZE - 2) :
        IF u \in {"L", "R"} THEN g[i][j] # 0 /\ g[i][j] = g[i][j + 1]
                            ELSE g[j][i] # 0 /\ g[j][i] = g[j + 1][i]

\* line n of g read from the edge the tiles move toward under direction u:
\* a row for L and R, a column for U and D
LineToward(g, u, n) ==
    [k \in Idx |-> IF u = "L" THEN g[n][k]
                   ELSE IF u = "R" THEN g[n][BOARD_SIZE - 1 - k]
                   ELSE IF u = "U" THEN g[k][n]
                   ELSE g[BOARD_SIZE - 1 - k][n]]

\* the slide toward the edge of u done line by line, without rotating
DirectSlide(g, u) ==
    LET out == [n \in Idx |-> SlideRow(LineToward(g, u, n), FALSE)]
    IN  [grid  |-> [i \in Idx |-> [j \in Idx |->
                      IF u = "L" THEN out[i].row[j]
                      ELSE IF u = "R" THEN out[i].row[BOARD_SIZE - 1 - j]
                      ELSE IF u = "U" THEN out[j].row[i]
                      ELSE out[j].row[BOARD_SIZE - 1 - i]]],
         moved |-> \E n \in Idx : out[n].moved]

NoLegalMove(g, wt) == \A c \in Directions : ~move(g, wt, c, 0, 1).ret

NoEmptyNoEqualNeighbours(g) ==
    /\ \A c \in Cells : Cell(g, c) # 0
    /\ \A i \in Idx, j \in 0 .. (BOARD_SIZE - 2) :
          g[i][j] # g[i][j + 1] /\ g[j][i] # g[j + 1][i]

----------------------------------------------------------------------------
(* Properties *)

\* C1: a slide that changes a cell makes move return true and spawn exactly
\* one tile: the grid after move differs from the grid after the slide in
\* exactly one cell, which was 0 and now holds 2 or 4; and move returns true
\* only when the slide changed a cell.
C1_ChangedSlideSpawnsOne ==
    op = "move" =>
        /\ slid # pre =>
              /\ ret
              /\ \E c \in Cells :
                    /\ Differing(slid, grid) = {c}
                    /\ Cell(slid, c) = 0
                    /\ Cell(grid, c) \in {2, 4}
        /\ ret => slid # pre

\* C1 witness: a move whose slide left a single empty cell, which the spawn
\* filled
C1_Witness ==
    /\ op = "move"
    /\ ret
    /\ slid # pre
    /\ Cardinality(NonZero(slid)) = BOARD_SIZE * BOARD_SIZE - 1
    /\ NonZero(grid) = Cells

\* C2: a move that returns false leaves all 16 cells and winTarget as they
\* were before the call, whatever the direction.
C2_FalseMoveUntouched ==
    [][(op' = "move" /\ ret' = FALSE) => (grid' = grid /\ winTarget' = winTarget)]_vars

\* C2 witness: a move down that returned false on a grid of at least four
\* tiles
C2_Witness ==
    /\ op = "move"
    /\ ~ret
    /\ arg = "D"
    /\ grid = pre
    /\ Cardinality(NonZero(grid)) >= 4

\* C3: no tile takes part in two merges of one slide to the left: every row
\* after the slide arises from the row before by merging disjoint pairs of
\* equal neighbours.
C3_NoTileMergesTwice ==
    (op = "move" /\ toupper(arg) = "L") =>
        \A row \in Idx : AtMostOneMergeEach(Compact(pre[row]), Compact(slid[row]))

\* C4: isGameOver is true exactly when no move in any of the four
\* directions on a copy of the grid would return true, and exactly when the
\* grid has no empty cell and no two equal neighbours.
C4_GameOverIffNoLegalMove ==
    /\ isGameOver(grid) <=> NoLegalMove(grid, winTarget)
    /\ isGameOver(grid) <=> NoEmptyNoEqualNeighbours(grid)

\* C4 witness: isGameOver was called and returned true
C4_Witness ==
    /\ op = "isGameOver"
    /\ ret
    /\ NoLegalMove(grid, winTarget)

\* C8: move with a character other than L, R, U, D in either case returns
\* false, leaves every cell unchanged and spawns nothing.
C8_UnknownDirectionIsNoChange ==
    (op = "move" /\ toupper(arg) \notin Directions) =>
        /\ ret = FALSE
        /\ grid = pre
        /\ slid = pre

\* C8 witness: move('x') on a grid on which some direction can move
C8_Witness ==
    /\ op = "move"
    /\ arg = "x"
    /\ ~ret
    /\ ~NoLegalMove(grid, winTarget)

\* C9: winTarget is 256, 512 or 1024 according to the mode and never
\* changes; checkWin is true exactly when a cell equals winTarget, and a
\* call of checkWin returns that and leaves the grid alone.
C9_WinTargetFixedCheckWinExact ==
    /\ [](/\ winTarget = (IF mode = "E" THEN 256 ELSE IF mode = "M" THEN 512 ELSE 1024)
          /\ checkWin(grid, winTarget) <=> (\E c \in Cells : Cell(grid, c) = winTarget)
          /\ op = "checkWin" =>
                /\ ret <=> (\E c \in Cells : Cell(grid, c) = winTarget)
                /\ grid = pre)
    /\ [][winTarget' = winTarget /\ mode' = mode]_vars

\* C9 witness: checkWin was called and returned true
C9_Witness ==
    /\ op = "checkWin"
    /\ ret
    /\ \E c \in Cells : Cell(grid, c) = 256

\* C10: right after construction the grid holds exactly two non-zero
\* cells, each 2 or 4.
C10_TwoInitialTiles ==
    op = "Board" =>
        /\ Cardinality(NonZero(grid)) = 2
        /\ \A c \in NonZero(grid) : Cell(grid, c) \in {2, 4}

\* C10 witness: a construction whose two position draws were both 0
C10_Witness ==
    /\ op = "Board"
    /\ grid[0][0] # 0
    /\ grid[0][1] # 0

\* C5: the same slide applied a second time with no spawn in between
\* changes nothing and reports 'not moved'.
C5_SecondSlideChangesNothing ==
    (op = "slide" /\ reps >= 2) => (ret = FALSE /\ grid = pre)

\* C5 as amended: the second slide never shifts a tile without merging; it
\* reports 'moved' exactly when it changes the grid, and that exactly when
\* the first slide left two equal tiles next to each other along the slide
\* axis.
C5_SecondSlideOnlyMerges ==
    (op = "slide" /\ reps >= 2) =>
        /\ ret <=> EqualNeighboursAlong(pre, arg)
        /\ ret <=> grid # pre
        /\ Cardinality(NonZero(grid)) = Cardinality(NonZero(pre)) => grid = pre

\* C5 witness: a second slide of a grid with three tiles that changed
\* nothing
C5_Witness ==
    /\ op = "slide"
    /\ reps = 2
    /\ ~ret
    /\ grid = pre
    /\ Cardinality(NonZero(grid)) >= 3

\* C6: slide-left keeps the non-zero values in order and leaves the zeros
\* at the right end; a row a,a,a,0 becomes 2a,a,0,0 and a row 0,0,a,a
\* becomes 2a,0,0,0, both reported as changed.
C6_SlideLeftRows ==
    (op = "slide" /\ arg = "L") =>
        \A row \in Idx :
            /\ \A j \in 0 .. (BOARD_SIZE - 2) : grid[row][j] = 0 => grid[row][j + 1] = 0
            /\ Len(Compact(grid[row])) = Len(Compact(pre[row]))
                  => Compact(grid[row]) = Compact(pre[row])
            /\ \A a \in TileValues :
                  /\ pre[row] = Row4(a, a, a, 0) => (grid[row] = Row4(2 * a, a, 0, 0) /\ ret)
                  /\ pre[row] = Row4(0, 0, a, a) => (grid[row] = Row4(2 * a, 0, 0, 0) /\ ret)

\* C6 witness: the row 4,4,4,0 was slid to the left
C6_Witness ==
    /\ op = "slide"
    /\ arg = "L"
    /\ reps = 1
    /\ \E row \in Idx : pre[row] = Row4(4, 4, 4, 0) /\ grid[row] = Row4(8, 4, 0, 0)

\* C7: the rotate, slide left, rotate back implementation of R, U and D
\* gives the grid and the 'changed' result of sliding each row toward
\* column 3, each column toward row 0, each column toward row 3, merges
\* scanned from that edge, lines not exchanging values.
C7_RotationIsDirectSlide ==
    (op = "slide" /\ arg \in {"R", "U", "D"}) =>
        /\ grid = DirectSlide(pre, arg).grid
        /\ ret = DirectSlide(pre, arg).moved

\* C7 witness: a slide down that merged two tiles of a column
C7_Witness ==
    /\ op = "slide"
    /\ arg = "D"
    /\ ret
    /\ \E j \in Idx :
          /\ pre[1][j] = 2 /\ pre[3][j] = 2 /\ pre[2][j] = 0
          /\ grid[3][j] = 4 /\ grid[2][j] = pre[0][j]

\* a positive power of two
RECURSIVE IsPowerOfTwo(_)
IsPowerOfTwo(v) == v = 2 \/ (v > 2 /\ v % 2 = 0 /\ IsPowerOfTwo(v \div 2))

AllZeroOrPowerOfTwo(g) == \A c \in Cells : Cell(g, c) = 0 \/ IsPowerOfTwo(Cell(g, c))

\* C11: after construction and after every call of move, whatever it
\* returns, every cell is 0 or a positive power of two and some cell is
\* not 0; the same holds of the grid between the slide and the spawn.
C11_CellsZeroOrPowerOfTwo ==
    /\ AllZeroOrPowerOfTwo(grid)
    /\ NonZero(grid) # {}
    /\ op = "move" => (AllZeroOrPowerOfTwo(slid) /\ NonZero(slid) # {})

\* C11 witness: a move that merged tiles and left a 128 on the grid
C11_Witness ==
    /\ op = "move"
    /\ ret
    /\ Cardinality(NonZero(slid)) < Cardinality(NonZero(pre))
    /\ \E c \in Cells : Cell(grid, c) = 128

\* C12: addRandomPiece leaves every non-zero cell as it was; it changes at
\* most one cell, from 0 to 2 or 4; on a grid without an empty cell it
\* changes nothing and draws nothing from the random source.
C12_SpawnNeverOverwrites ==
    op = "addRandomPiece" =>
        /\ \A c \in NonZero(pre) : Cell(grid, c) = Cell(pre, c)
        /\ Cardinality(Differing(pre, grid)) <= 1
        /\ \A c \in Differing(pre, grid) : Cell(pre, c) = 0 /\ Cell(grid, c) \in {2, 4}
        /\ NonZero(pre) = Cells => (grid = pre /\ drawn = << >>)

\* C12 witness: addRandomPiece ran on a grid without an empty cell
C12_Witness ==
    /\ op = "addRandomPiece"
    /\ NonZero(pre) = Cells
    /\ grid = pre
    /\ drawn = << >>

\* cell c comes before cell e in row-major order
RowMajorBefore(c, e) == c[1] < e[1] \/ (c[1] = e[1] /\ c[2] < e[2])

\* the largest value draw for which a board built with difficulty m spawns
\* a 2
TwoUpTo(m) == IF m = "E" THEN 5 ELSE IF m = "M" THEN 7 ELSE 9

\* C14: with position draw k and value draw d, addRandomPiece fills the
\* k-th empty cell in row-major order, k in 0 .. emptyCount - 1, with 2
\* when d <= 5 (Easy), d <= 7 (Medium), d <= 9 (Hard) and with 4
\* otherwise, the difficulty being the one the board was constructed with.
C14_SpawnValueAndCell ==
    (op = "addRandomPiece" /\ NonZero(pre) # Cells) =>
        /\ Len(drawn) = 2
        /\ drawn[1] \in 0 .. (BOARD_SIZE * BOARD_SIZE - Cardinality(NonZero(pre)) - 1)
        /\ \E c \in Cells :
              /\ Differing(pre, grid) = {c}
              /\ Cell(pre, c) = 0
              /\ Cardinality({e \in Cells : Cell(pre, e) = 0 /\ RowMajorBefore(e, c)}) = drawn[1]
              /\ Cell(grid, c) = (IF drawn[2] <= TwoUpTo(mode) THEN 2 ELSE 4)

\* C14 witness: a Medium board spawned a 4 on value draw 8 in its third
\* empty cell, which is not the third cell of the grid
C14_Witness ==
    /\ op = "addRandomPiece"
    /\ mode = "M"
    /\ drawn = <<2, 8>>
    /\ pre[0][1] # 0
    /\ \E c \in Cells : Differing(pre, grid) = {c} /\ Cell(grid, c) = 4

\* C13: four rotations in the same sense, and a rotation followed by the
\* rotation in the other sense, give back the grid they started from.
C13_RotationsRestoreGrid ==
    (op = "rotateBoard" /\ replay = << >>) => grid = pre

\* C13 witness: four rotations done on a grid that one rotation changes
\* and two rotations change
C13_Witness ==
    /\ op = "rotateBoard"
    /\ replay = << >>
    /\ reps = 4
    /\ grid = pre
    /\ rotateBoard(grid, FALSE) # grid
    /\ rotateBoard(rotateBoard(grid, FALSE), FALSE) # grid

\* the sum of the cells n, n + 1, ... of g in row-major order
RECURSIVE SumFrom(_, _)
SumFrom(g, n) ==
    IF n = BOARD_SIZE * BOARD_SIZE THEN 0
    ELSE g[n \div BOARD_SIZE][n % BOARD_SIZE] + SumFrom(g, n + 1)

GridSum(g) == SumFrom(g, 0)

\* C18: the slide of a move leaves the sum of the 16 cells as it was; a
\* move that returns true adds the spawned 2 or 4 to it and a move that
\* returns false leaves it unchanged; no step decreases it.
C18_SlideConservesSum ==
    /\ [](op = "move" =>
            /\ GridSum(slid) = GridSum(pre)
            /\ ret => GridSum(grid) - GridSum(pre) \in {2, 4}
            /\ ~ret => GridSum(grid) = GridSum(pre))
    /\ [][GridSum(grid') >= GridSum(grid)]_vars

\* C18 witness: a move whose slide took at least two tiles off the grid by
\* merging and which then spawned a 4
C18_Witness ==
    /\ op = "move"
    /\ ret
    /\ Cardinality(NonZero(slid)) + 2 <= Cardinality(NonZero(pre))
    /\ GridSum(grid) = GridSum(pre) + 4

Printed(m) == \E n \in 1 .. Len(cout) : cout[n] = m

\* C15: in a session run by main no cell ever exceeds winTarget, and while
\* the loop goes on (at its condition and at the prompt) every cell is
\* below winTarget: no move jumps past the target and no win is missed.
C15_NoCellAboveWinTarget ==
    /\ \A c \in Cells : Cell(grid, c) <= winTarget
    /\ pc \in {"while", "cin"} => \A c \in Cells : Cell(grid, c) < winTarget

\* C15 witness: a move of the session has just put winTarget on the grid
C15_Witness ==
    /\ pc = "checkWin"
    /\ op = "move"
    /\ \E c \in Cells : Cell(grid, c) = winTarget /\ Cell(pre, c) # winTarget

\* C16: main never prints both "You win!" and "You lose.".
C16_NeverWinAndLose ==
    ~(Printed("You win!") /\ Printed("You lose."))

\* C17: at every call of move by main the preceding statement was the
\* loop condition, isGameOver() returned false there, and no cell holds
\* winTarget; once "You win!" is printed the loop is left for good.
C17_NoMoveAfterEnd ==
    /\ [][(pc = "cin" /\ op' = "move") =>
             /\ op = "isGameOver" /\ ret = FALSE
             /\ ~isGameOver(grid)
             /\ ~checkWin(grid, winTarget)
             /\ ~Printed("You win!")]_vars
    /\ [](Printed("You win!") => pc \in {"if", "done"})
    /\ [][(pc \in {"if", "done"}) => (grid' = grid)]_vars

\* C17 witness: main has returned after a win that took more than 50
\* accepted moves
C17_Witness ==
    /\ pc = "done"
    /\ Printed("You win!")
    /\ accepted > 50

\* C19: the number of moves that return true is bounded: each adds at
\* least 2 to the sum of the cells, which starts at 4 or more and never
\* exceeds 16 * winTarget; at the prompt some direction would be accepted;
\* and main is again and again at the prompt or at its return: it never
\* runs forever without asking the player.
C19_SessionTerminates ==
    /\ [](/\ 4 + 2 * accepted <= GridSum(grid)
          /\ GridSum(grid) <= BOARD_SIZE * BOARD_SIZE * winTarget
          /\ pc = "cin" => ~NoLegalMove(grid, winTarget))
    /\ []<>(pc \in {"cin", "done"})

\* C19 witness: main has returned after a loss that took more than 30
\* accepted moves
C19_Witness ==
    /\ pc = "done"
    /\ cout = <<"You lose.">>
    /\ accepted > 30

====
